---- MODULE Spec2Model ----
(***************************************************************************)
(* Content wizard: the Review step (two variants, Step3Review.tsx and the  *)
(* preview variant carried in Step4Analysis.tsx) and the Analysis step     *)
(* (Step4Analysis.tsx).                                                    *)
(*                                                                         *)
(* Text is a sequence of tokens.  A token is a TLA+ string standing for an *)
(* unbreakable run of characters; Len(token) is its character count.  A    *)
(* placeholder such as [CONTENT] is the three tokens "[", "CONTENT", "]",  *)
(* so that searching for it is a real substring search.                    *)
(***************************************************************************)
EXTENDS Integers, Sequences, FiniteSets, TLC

(* ------------------------------------------------------------------ *)
(* Bounds                                                             *)
(* ------------------------------------------------------------------ *)
\* results handed to the Review step
MaxResults == 2
\* results behind the keyword and research handed to the Analysis step
MaxAnalysisResults == 1
\* generateStyleAnalysis invocations suspended at once
MaxGens == 2
\* clipboard writes and "Copied" timers pending at once
MaxCopies == 2

(* ------------------------------------------------------------------ *)
(* Strings                                                            *)
(* ------------------------------------------------------------------ *)
EMPTY == << >>

CONTENT == <<"[", "CONTENT", "]">>
KEYWORD == <<"[", "KEYWORD", "]">>
keywordToken == <<"[", "keyword", "]">>

\* s.startsWith(pat, i - 1): pat occurs in s at (1-based) index i
MatchAt(s, pat, i) ==
    /\ i >= 1
    /\ i + Len(pat) - 1 <= Len(s)
    /\ SubSeq(s, i, i + Len(pat) - 1) = pat

\* s.indexOf(pat, from - 1) + 1: index of the first occurrence at or after
\* from, 0 when there is none
IndexFrom(s, pat, from) ==
    LET hits == { i \in from..(Len(s) + 1) : MatchAt(s, pat, i) } IN
    IF hits = {} THEN 0
    ELSE CHOOSE i \in hits : \A j \in hits : i <= j

\* s.indexOf(pat) + 1
IndexOf(s, pat) == IndexFrom(s, pat, 1)

\* s.includes(pat)
Includes(s, pat) == IndexOf(s, pat) # 0

\* number of non-overlapping occurrences of pat in s, scanning left to right
RECURSIVE CountFrom(_, _, _)
CountFrom(s, pat, from) ==
    LET i == IF pat = EMPTY THEN 0 ELSE IndexFrom(s, pat, from) IN
    IF i = 0 THEN 0 ELSE 1 + CountFrom(s, pat, i + Len(pat))

Count(s, pat) == CountFrom(s, pat, 1)

\* GetSubstitution of String.prototype.replace for a string pattern (no
\* captures), from index i of the replacement on: $$ -> $, $& -> the match,
\* $` -> the text before the match, $' -> the text after the match, any
\* other $ and every other character stay as they are.
RECURSIVE GetSubstitution(_, _, _, _, _)
GetSubstitution(matched, str, position, replacement, i) ==
    LET d == IndexFrom(replacement, <<"$">>, i) IN
    IF i > Len(replacement) THEN EMPTY
    ELSE IF d = 0 THEN SubSeq(replacement, i, Len(replacement))
    ELSE IF d < Len(replacement)
            /\ replacement[d + 1] \in {"$", "&", "`", "'"}
         THEN SubSeq(replacement, i, d - 1)
              \o (CASE replacement[d + 1] = "$" -> <<"$">>
                    [] replacement[d + 1] = "&" -> matched
                    [] replacement[d + 1] = "`" -> SubSeq(str, 1, position - 1)
                    [] replacement[d + 1] = "'" ->
                           SubSeq(str, position + Len(matched), Len(str)))
              \o GetSubstitution(matched, str, position, replacement, d + 2)
         ELSE SubSeq(replacement, i, d)
              \o GetSubstitution(matched, str, position, replacement, d + 1)

\* s.replace(pat, rep) with a string pattern: only the first occurrence
JsReplace(s, pat, rep) ==
    LET i == IndexOf(s, pat) IN
    IF i = 0 THEN s
    ELSE SubSeq(s, 1, i - 1)
         \o GetSubstitution(pat, s, i, rep, 1)
         \o SubSeq(s, i + Len(pat), Len(s))

\* characters of a text
RECURSIVE CharLen(_)
CharLen(s) == IF s = EMPTY THEN 0 ELSE Len(Head(s)) + CharLen(Tail(s))

\* xs.join(sep) for a sequence of texts
RECURSIVE Join(_, _)
Join(xs, sep) ==
    IF xs = << >> THEN EMPTY
    ELSE IF Len(xs) = 1 THEN xs[1]
    ELSE xs[1] \o sep \o Join(Tail(xs), sep)

\* s.trim()
RECURSIVE TrimLeft(_)
TrimLeft(s) ==
    IF s # EMPTY /\ Head(s) \in {" ", "\n"} THEN TrimLeft(Tail(s)) ELSE s

RECURSIVE TrimRight(_)
TrimRight(s) ==
    IF s # EMPTY /\ s[Len(s)] \in {" ", "\n"}
    THEN TrimRight(SubSeq(s, 1, Len(s) - 1)) ELSE s

Trim(s) == TrimRight(TrimLeft(s))

\* s.split(/[...]/) on single-character separators: always at least one piece
RECURSIVE SplitOn(_, _, _)
SplitOn(s, seps, cur) ==
    IF s = EMPTY THEN <<cur>>
    ELSE IF Head(s) \in seps THEN <<cur>> \o SplitOn(Tail(s), seps, EMPTY)
    ELSE SplitOn(Tail(s), seps, Append(cur, Head(s)))

Split(s, seps) == SplitOn(s, seps, EMPTY)

MapSeq(xs, F(_)) == [i \in 1..Len(xs) |-> F(xs[i])]

(* ------------------------------------------------------------------ *)
(* Search results                                                     *)
(* ------------------------------------------------------------------ *)
\* SearchResult { title, url, snippet, content?, searchKeyword }; an absent
\* content and an empty one are both EMPTY (the code only tests truthiness)
SearchResult(t, u, s, c, k) ==
    [title |-> t, url |-> u, snippet |-> s, content |-> c, searchKeyword |-> k]

ResultPool ==
    { SearchResult(<<"A">>, <<"u1">>, <<"s1">>, EMPTY, <<"kw">>),
      SearchResult(<<"Guide to gardening", ":", " ", "Soil">>, <<"u2">>,
                   <<"First", ".", ".", ".", " ", "cost", "$", "&", "!">>,
                   <<"<p>", "Body", "</p>">>, <<"kw2">>),
      SearchResult(<<"B">>, <<"u3">>, EMPTY, EMPTY, <<"x">> \o CONTENT) }

RECURSIVE SeqsUpTo(_, _)
SeqsUpTo(S, n) ==
    IF n = 0 THEN { << >> }
    ELSE LET shorter == SeqsUpTo(S, n - 1) IN
         shorter \cup { Append(q, x) : q \in shorter, x \in S }

ResultSeqs == SeqsUpTo(ResultPool, MaxResults)

AnalysisResultSeqs == SeqsUpTo(ResultPool, MaxAnalysisResults) \ { << >> }

(* ------------------------------------------------------------------ *)
(* Review step, Step3Review.tsx: content formatting                   *)
(* ------------------------------------------------------------------ *)
\* the characters of /[-\u2013\u2014:]/ (hyphen, en dash, em dash, colon)
TitleSeparators == {"-", "ndash", "mdash", ":"}
SentenceEnds == {".", "!", "?"}

KeepLong(ps) == SelectSeq(ps, LAMBDA q : CharLen(q) > 10)

KeepNonEmpty(ps) == SelectSeq(ps, LAMBDA q : CharLen(q) > 0)

\* title.split(TitleSeparators).map(trim).filter(p => p.length > 10)
titlePoints(result) ==
    KeepLong(MapSeq(Split(result.title, TitleSeparators), Trim))

\* s.replace(/\.\.\./g, ".")
RECURSIVE ReplaceEllipsis(_)
ReplaceEllipsis(s) ==
    IF s = EMPTY THEN EMPTY
    ELSE IF MatchAt(s, <<".", ".", ".">>, 1)
         THEN <<".">> \o ReplaceEllipsis(SubSeq(s, 4, Len(s)))
    ELSE <<Head(s)>> \o ReplaceEllipsis(Tail(s))

\* snippet.replace(...).split(/[.!?]/).map(trim).filter(nonempty).join(". ")
cleanSnippet(result) ==
    Join(KeepNonEmpty(MapSeq(Split(ReplaceEllipsis(result.snippet),
                                   SentenceEnds), Trim)),
         <<".", " ">>)

Bullet(p) == <<"- ">> \o p

DirectBlock(result) ==
    <<"#", " ">> \o result.title \o <<"\n", "\n", "Source: ">> \o result.url
    \o <<"\n", "\n", "Key Points:", "\n">>
    \o Join(MapSeq(titlePoints(result), Bullet), <<"\n">>)
    \o <<"\n", "\n", "Summary:", "\n">> \o cleanSnippet(result)
    \o <<"\n", "\n", "---", "\n">>

Reverse(xs) == [i \in 1..Len(xs) |-> xs[Len(xs) + 1 - i]]

\* mutant: the blocks are emitted last result first
DirectContent_Reversed(rs) == Join(MapSeq(Reverse(rs), DirectBlock), <<"\n">>)

DirectContent(rs) == Join(MapSeq(rs, DirectBlock), <<"\n">>)

(* ------------------------------------------------------------------ *)
(* Review step, preview variant: content formatting                   *)
(* ------------------------------------------------------------------ *)
HtmlTags == {"<p>", "</p>"}

\* the HTML to markdown collaborator: drops the tags, keeps the text
htmlToMarkdown(s) == SelectSeq(s, LAMBDA t : t \notin HtmlTags)

NO_CONTENT == <<"No content available">>
NO_SUMMARY == <<"No summary available">>

\* a || b on strings
OrElse(a, b) == IF a # EMPTY THEN a ELSE b

markdownContent(result) ==
    IF result.content # EMPTY
    THEN htmlToMarkdown(result.content)
    ELSE OrElse(result.snippet, NO_CONTENT)

PreviewBlock(result) ==
    <<"#", " ">> \o result.title \o <<"\n", "\n", "Source: ">> \o result.url
    \o <<"\n", "\n", "## Summary", "\n">> \o OrElse(result.snippet, NO_SUMMARY)
    \o <<"\n", "\n", "## Full Content", "\n">> \o markdownContent(result)
    \o <<"\n", "\n", "---", "\n">>

PreviewContent(rs) == Join(MapSeq(rs, PreviewBlock), <<"\n">>)

\* results[0]?.searchKeyword || ""
KeywordOf(rs) == IF rs = << >> THEN EMPTY ELSE rs[1].searchKeyword

(* ------------------------------------------------------------------ *)
(* Templates                                                          *)
(* ------------------------------------------------------------------ *)
\* DEFAULT_PROMPT of the Review step (the same text in both variants)
REVIEW_DEFAULT_PROMPT ==
    <<"This is research content about articles on ">> \o keywordToken
    \o <<": ">> \o CONTENT \o <<"\n", "\n", "Please analyze and provide:">>

\* DEFAULT_PROMPT of the Analysis step
DEFAULT_PROMPT ==
    <<"Based on the following research content about \"">> \o KEYWORD
    \o <<"\", analyze the characteristics of the content writers.", "\n",
         "Research content:", "\n">> \o CONTENT

\* DEFAULT_PROMPT.replace("[KEYWORD]", keyword).replace("[CONTENT]", research)
initializedPrompt(kw, research) ==
    JsReplace(JsReplace(DEFAULT_PROMPT, KEYWORD, kw), CONTENT, research)

\* the prompt the preview variant's effect sets for a keyword
EffectPrompt(kw) ==
    IF kw # EMPTY THEN JsReplace(REVIEW_DEFAULT_PROMPT, keywordToken, kw)
    ELSE REVIEW_DEFAULT_PROMPT

\* the models offered by the Select; the first one is preselected
RECOMMENDED_MODELS == <<"gemini-1.5-pro", "claude-3-5-sonnet">>

\* keyword.replace(/\s+/g, "-"): every run of whitespace becomes one hyphen
Whitespace == {" ", "\n", "\t"}

Hyphenate(t) ==
    LET keep == {i \in DOMAIN t :
                    \/ t[i] \notin Whitespace
                    \/ i = 1
                    \/ t[i - 1] \notin Whitespace}
        nth(k) == CHOOSE i \in keep : Cardinality({j \in keep : j < i}) = k - 1
    IN  [k \in 1..Cardinality(keep) |->
            IF t[nth(k)] \in Whitespace THEN "-" ELSE t[nth(k)]]

\* `${keyword.replace(/\s+/g, "-")}-style-analysis.md`
DownloadName(kw) == Hyphenate(kw) \o <<"-style-analysis.md">>

\* the placeholder text the generation stub stores as its result
ANALYSIS_TEXT ==
    <<"The AI analysis will appear here after generation is complete.">>

\* what the user may type into the Review step's prompt box
ReviewEdits ==
    { <<"Custom">>,
      <<"Compare ">> \o CONTENT \o <<" with ">> \o CONTENT,
      <<"On ">> \o keywordToken \o <<": ">> \o CONTENT }

\* what the user may type into the Analysis step's prompt box
AnalysisEdits == { <<"Describe the tone">> }

(* ------------------------------------------------------------------ *)
(* State                                                              *)
(* ------------------------------------------------------------------ *)
VARIABLES
    variant,          \* which Step3Review the build uses: "direct" | "preview"
    activeStep,       \* the step the wizard renders
    results,          \* Review step prop: SearchResult[]
    r_prompt,         \* Review step: prompt
    r_isProcessing,   \* Review step: isProcessing
    processedContent, \* Review step (preview): processedContent
    r_showResults,    \* Review step (preview): showResults
    finalKeyword,     \* Review step (preview): finalKeyword
    finalPrompt,      \* Review step (preview): finalPrompt
    processRun,       \* the prompt and results the last handleProcess read
    keyword,          \* Analysis step prop: keyword
    researchContent,  \* Analysis step prop: researchContent
    prompt,           \* Analysis step: prompt
    analysisResult,   \* Analysis step: analysisResult
    isProcessing,     \* Analysis step: isProcessing
    isGenerating,     \* Analysis step: isGenerating
    showResults,      \* Analysis step: showResults
    selectedModel,    \* Analysis step: selectedModel
    copySuccess,      \* Analysis step: copySuccess
    writes,           \* clipboard.writeText promises not yet settled
    timers,           \* setTimeout(() => setCopySuccess(false)) pending
    gens,             \* generateStyleAnalysis invocations suspended at await
    edited,           \* the text the user typed last into the Review prompt
    last              \* the handler that ran last and the onNext call it made

reviewVars ==
    <<r_prompt, r_isProcessing, processedContent, r_showResults,
      finalKeyword, finalPrompt, processRun>>
analysisProps == <<keyword, researchContent>>
exportVars == <<selectedModel, copySuccess, writes, timers>>
analysisVars ==
    <<prompt, analysisResult, isProcessing, isGenerating, showResults,
      exportVars>>
vars ==
    <<variant, activeStep, results, r_prompt, r_isProcessing,
      processedContent, r_showResults, finalKeyword, finalPrompt,
      processRun, keyword,
      researchContent, prompt, analysisResult, isProcessing, isGenerating,
      showResults, selectedModel, copySuccess, writes, timers, gens, edited,
      last>>

NoCall == << >>
NoFile == << >>

\* one run of the preview variant's handleProcess: the prompt text and the
\* results it read; NoRun before any run on a non-empty results sequence
Run(tmpl, rs) == [tmpl |-> tmpl, results |-> rs]
NoRun == Run(EMPTY, << >>)
NotEdited == <<"(never edited)">>

\* op: the handler; by: who started the generation; ok: whether the awaited
\* operation resolved; onNext: the arguments of the onNext call, if any;
\* held: analysisResult as the step holds it when the handler ends;
\* before: analysisResult when the handler began; tmpl: the prompt resolved;
\* ctx: what else held when the handler made its call (see WithCtx);
\* file: the name and text of the file the handler saved, if any;
\* run: the handleProcess run whose outcome the handler passed on
NoCtx == [live |-> FALSE, generating |-> FALSE, processing |-> FALSE,
          suspended |-> 0, foreign |-> 0]

Event(op, by, ok, call, held, before, tmpl) ==
    [op |-> op, by |-> by, ok |-> ok, onNext |-> call, held |-> held,
     before |-> before, tmpl |-> tmpl, ctx |-> NoCtx, file |-> NoFile,
     run |-> NoRun]

\* live: the handler belongs to the mounted instance; generating,
\* processing: isGenerating and isProcessing as the handler leaves them;
\* suspended: generateStyleAnalysis invocations still at their await;
\* foreign: those of them that belong to an instance no longer mounted
Ctx(live, generating, processing, suspended, foreign) ==
    [live |-> live, generating |-> generating, processing |-> processing,
     suspended |-> suspended, foreign |-> foreign]

WithCtx(e, c) == [e EXCEPT !.ctx = c]

Plain(op) == Event(op, "", TRUE, NoCall, EMPTY, EMPTY, EMPTY)

(* ------------------------------------------------------------------ *)
(* Mounting: useState initial values and the mount effect             *)
(* ------------------------------------------------------------------ *)
ReviewMount(rs) ==
    /\ r_prompt' = IF variant = "direct" THEN REVIEW_DEFAULT_PROMPT
                   ELSE EffectPrompt(KeywordOf(rs))
    /\ r_isProcessing' = FALSE
    /\ processedContent' = EMPTY
    /\ r_showResults' = FALSE
    /\ finalKeyword' = EMPTY
    /\ finalPrompt' = EMPTY
    /\ processRun' = NoRun

ReviewUnmount ==
    /\ r_prompt' = EMPTY
    /\ r_isProcessing' = FALSE
    /\ processedContent' = EMPTY
    /\ r_showResults' = FALSE
    /\ finalKeyword' = EMPTY
    /\ finalPrompt' = EMPTY
    /\ processRun' = NoRun

AnalysisMount(kw, research) ==
    /\ keyword' = kw
    /\ researchContent' = research
    /\ prompt' = initializedPrompt(kw, research)
    /\ analysisResult' = EMPTY
    /\ isProcessing' = FALSE
    /\ isGenerating' = FALSE
    /\ showResults' = FALSE
    /\ selectedModel' = RECOMMENDED_MODELS[1]
    /\ copySuccess' = FALSE
    /\ writes' = 0
    /\ timers' = 0

\* the callbacks of an unmounted step's clipboard writes and timers set
\* state that no longer exists
AnalysisUnmount ==
    /\ keyword' = EMPTY
    /\ researchContent' = EMPTY
    /\ prompt' = EMPTY
    /\ analysisResult' = EMPTY
    /\ isProcessing' = FALSE
    /\ isGenerating' = FALSE
    /\ showResults' = FALSE
    /\ selectedModel' = RECOMMENDED_MODELS[1]
    /\ copySuccess' = FALSE
    /\ writes' = 0
    /\ timers' = 0

\* the invocations of an unmounted instance keep running; their state
\* setters no longer reach any mounted state
Orphan(gs) == [i \in DOMAIN gs |-> [gs[i] EXCEPT !.live = FALSE]]

Without(gs, i) == SubSeq(gs, 1, i - 1) \o SubSeq(gs, i + 1, Len(gs))

Init ==
    /\ variant \in {"direct", "preview"}
    /\ activeStep = "Search"
    /\ results = << >>
    /\ r_prompt = EMPTY
    /\ r_isProcessing = FALSE
    /\ processedContent = EMPTY
    /\ r_showResults = FALSE
    /\ finalKeyword = EMPTY
    /\ finalPrompt = EMPTY
    /\ processRun = NoRun
    /\ keyword = EMPTY
    /\ researchContent = EMPTY
    /\ prompt = EMPTY
    /\ analysisResult = EMPTY
    /\ isProcessing = FALSE
    /\ isGenerating = FALSE
    /\ showResults = FALSE
    /\ selectedModel = RECOMMENDED_MODELS[1]
    /\ copySuccess = FALSE
    /\ writes = 0
    /\ timers = 0
    /\ gens = << >>
    /\ edited = NotEdited
    /\ last = Plain("other")

(* ------------------------------------------------------------------ *)
(* The wizard around the steps                                        *)
(* ------------------------------------------------------------------ *)
\* the search step hands over its results and the wizard shows Review
EnterReview ==
    \E rs \in ResultSeqs :
        /\ activeStep = "Search"
        /\ activeStep' = "Review"
        /\ results' = rs
        /\ ReviewMount(rs)
        /\ last' = Plain("other")
        /\ UNCHANGED <<variant, analysisProps, analysisVars, gens, edited>>

\* onNext of the Review step: the wizard shows Analysis with the keyword
\* and research it was handed
ReviewOnNext(kw, research) ==
    /\ activeStep' = "Analysis"
    /\ ReviewUnmount
    /\ AnalysisMount(kw, research)
    /\ UNCHANGED <<variant, results, gens, edited>>

\* onNext of the Analysis step: the wizard records the artifact and is done
AnalysisOnNext(rest) ==
    /\ activeStep' = "Done"
    /\ ReviewUnmount
    /\ AnalysisUnmount
    /\ gens' = Orphan(rest)
    /\ UNCHANGED <<variant, results, edited>>

\* onBack of the Review step
ReviewOnBack ==
    /\ activeStep = "Review"
    /\ activeStep' = "Search"
    /\ results' = << >>
    /\ ReviewUnmount
    /\ last' = Plain("other")
    /\ UNCHANGED <<variant, analysisProps, analysisVars, gens, edited>>

\* onBack of the Analysis step: Review is shown again, as a new instance
AnalysisOnBack ==
    /\ activeStep = "Analysis"
    /\ activeStep' = "Review"
    /\ ReviewMount(results)
    /\ AnalysisUnmount
    /\ gens' = Orphan(gens)
    /\ last' = Plain("other")
    /\ UNCHANGED <<variant, results, edited>>

(* ------------------------------------------------------------------ *)
(* Review step                                                        *)
(* ------------------------------------------------------------------ *)
\* onChange of the prompt box (either variant)
Review_setPrompt ==
    \E p \in ReviewEdits :
        /\ activeStep = "Review"
        /\ r_prompt' = p
        /\ edited' = p
        /\ last' = Plain("other")
        /\ UNCHANGED <<variant, activeStep, results, r_isProcessing,
                       processedContent, r_showResults, finalKeyword,
                       finalPrompt, processRun, analysisProps,
                       analysisVars, gens>>

\* mutant: handleProcess without its empty-results return
Direct_handleProcess_Unguarded ==
    /\ activeStep = "Review"
    /\ variant = "direct"
    /\ LET content == DirectContent(results)
           kw == KeywordOf(results)
           researchPrompt == JsReplace(r_prompt, CONTENT, content)
       IN  /\ ReviewOnNext(kw, content)
           /\ last' = Event("Review.handleProcess", "", TRUE,
                            <<researchPrompt, kw, content>>,
                            EMPTY, EMPTY, r_prompt)

\* Step3Review.tsx handleProcess: formats, resolves [CONTENT], calls onNext;
\* setIsProcessing(true) and (false) fall into the same synchronous run
Direct_handleProcess ==
    /\ activeStep = "Review"
    /\ variant = "direct"
    /\ IF Len(results) = 0
       THEN /\ last' = Plain("Review.handleProcess")
            /\ UNCHANGED <<variant, activeStep, results, reviewVars,
                           analysisProps, analysisVars, gens, edited>>
       ELSE LET content == DirectContent(results)
                kw == KeywordOf(results)
                researchPrompt == JsReplace(r_prompt, CONTENT, content)
            IN  /\ ReviewOnNext(kw, content)
                /\ last' = Event("Review.handleProcess", "", TRUE,
                                 <<researchPrompt, kw, content>>,
                                 EMPTY, EMPTY, r_prompt)

\* preview variant handleProcess: formats, resolves [CONTENT], stores the
\* outcome and shows the preview
Preview_handleProcess ==
    /\ activeStep = "Review"
    /\ variant = "preview"
    /\ IF Len(results) = 0
       THEN /\ last' = Plain("Review.handleProcess")
            /\ UNCHANGED <<variant, activeStep, results, reviewVars,
                           analysisProps, analysisVars, gens, edited>>
       ELSE LET content == PreviewContent(results)
                generatedPrompt == JsReplace(r_prompt, CONTENT, content)
            IN  /\ processedContent' = content
                /\ finalKeyword' = KeywordOf(results)
                /\ finalPrompt' = generatedPrompt
                /\ processRun' = Run(r_prompt, results)
                /\ r_showResults' = TRUE
                /\ r_isProcessing' = FALSE
                /\ last' = Event("Review.handleProcess", "", TRUE, NoCall,
                                 EMPTY, EMPTY, r_prompt)
                /\ UNCHANGED <<variant, activeStep, results, r_prompt,
                               analysisProps, analysisVars, gens, edited>>

\* preview variant handleContinue, behind the showResults-gated button
Preview_handleContinue ==
    /\ activeStep = "Review"
    /\ variant = "preview"
    /\ r_showResults
    /\ ReviewOnNext(finalKeyword, processedContent)
    /\ last' = [Event("Review.handleContinue", "", TRUE,
                      <<finalPrompt, finalKeyword, processedContent>>,
                      EMPTY, EMPTY, EMPTY) EXCEPT !.run = processRun]

\* the wizard re-renders the mounted Review step with other results; the
\* preview variant's effect runs again when the derived keyword changed
Review_propsChange ==
    \E rs \in ResultSeqs :
        /\ activeStep = "Review"
        /\ rs # results
        /\ results' = rs
        /\ r_prompt' = IF variant = "preview"
                          /\ KeywordOf(rs) # KeywordOf(results)
                       THEN EffectPrompt(KeywordOf(rs))
                       ELSE r_prompt
        /\ last' = Plain("Review.propsChange")
        /\ UNCHANGED <<variant, activeStep, r_isProcessing, processedContent,
                       r_showResults, finalKeyword, finalPrompt,
                       processRun, analysisProps, analysisVars, gens,
                       edited>>

(* ------------------------------------------------------------------ *)
(* Analysis step                                                      *)
(* ------------------------------------------------------------------ *)
Gen(by, captured) == [by |-> by, captured |-> captured, live |-> TRUE]

\* invocations of the mounted instance, and of instances no longer mounted
LiveGens(gs) == SelectSeq(gs, LAMBDA g : g.live)
ForeignGens(gs) == SelectSeq(gs, LAMBDA g : ~g.live)

\* mutant: the busy flag is cleared only when the awaited operation resolved
AfterSettle_OnlyOnSuccess(flag, ok) == IF ok THEN FALSE ELSE flag

\* finally { setIsGenerating(false) } and finally { setIsProcessing(false) }:
\* the flag after the handler, whatever the awaited operation did
AfterSettle(flag, ok) == FALSE

\* onChange of the prompt box
Analysis_setPrompt ==
    \E p \in AnalysisEdits :
        /\ activeStep = "Analysis"
        /\ prompt' = p
        /\ last' = Plain("other")
        /\ UNCHANGED <<variant, activeStep, results, reviewVars,
                       analysisProps, analysisResult, isProcessing,
                       isGenerating, showResults, exportVars, gens, edited>>

\* mutant: the Generate button is never disabled
generateStyleAnalysis_NotDisabled ==
    /\ activeStep = "Analysis"
    /\ Len(gens) < MaxGens
    /\ isGenerating' = TRUE
    /\ gens' = Append(gens, Gen("Generate", analysisResult))
    /\ last' = Plain("other")
    /\ UNCHANGED <<variant, activeStep, results, reviewVars, analysisProps,
                   prompt, analysisResult, isProcessing, showResults,
                   exportVars, edited>>

\* Generate button (disabled while isGenerating): generateStyleAnalysis
\* runs up to its await
generateStyleAnalysis ==
    /\ activeStep = "Analysis"
    /\ ~isGenerating
    /\ Len(gens) < MaxGens
    /\ isGenerating' = TRUE
    /\ gens' = Append(gens, Gen("Generate", analysisResult))
    /\ last' = Plain("other")
    /\ UNCHANGED <<variant, activeStep, results, reviewVars, analysisProps,
                   prompt, analysisResult, isProcessing, showResults,
                   exportVars, edited>>

\* mutant: the Continue button is disabled by isProcessing alone
Analysis_handleProcess_NotDisabled ==
    /\ activeStep = "Analysis"
    /\ ~isProcessing
    /\ IF analysisResult = EMPTY /\ ~isGenerating
       THEN /\ Len(gens) < MaxGens
            /\ isProcessing' = TRUE
            /\ isGenerating' = TRUE
            /\ gens' = Append(gens, Gen("Continue", analysisResult))
            /\ last' = Plain("Analysis.handleProcess")
            /\ UNCHANGED <<variant, activeStep, results, reviewVars,
                           analysisProps, prompt, analysisResult,
                           showResults, exportVars, edited>>
       ELSE /\ AnalysisOnNext(gens)
            /\ last' = WithCtx(Event("Analysis.handleProcess", "Continue",
                                     TRUE, <<analysisResult>>, analysisResult,
                                     analysisResult, EMPTY),
                               Ctx(TRUE, isGenerating, AfterSettle(TRUE, TRUE),
                                   Len(gens), Len(ForeignGens(gens))))

\* Continue button (disabled while isProcessing or isGenerating):
\* handleProcess either starts a generation and suspends, or calls onNext
Analysis_handleProcess ==
    /\ activeStep = "Analysis"
    /\ ~isProcessing
    /\ ~isGenerating
    /\ IF analysisResult = EMPTY /\ ~isGenerating
       THEN /\ Len(gens) < MaxGens
            /\ isProcessing' = TRUE
            /\ isGenerating' = TRUE
            /\ gens' = Append(gens, Gen("Continue", analysisResult))
            /\ last' = Plain("Analysis.handleProcess")
            /\ UNCHANGED <<variant, activeStep, results, reviewVars,
                           analysisProps, prompt, analysisResult,
                           showResults, exportVars, edited>>
       ELSE /\ AnalysisOnNext(gens)
            /\ last' = WithCtx(Event("Analysis.handleProcess", "Continue",
                                     TRUE, <<analysisResult>>, analysisResult,
                                     analysisResult, EMPTY),
                               Ctx(TRUE, isGenerating, AfterSettle(TRUE, TRUE),
                                   Len(gens), Len(ForeignGens(gens))))

\* the awaited operation of invocation i settles (ok: it resolved); the rest
\* of generateStyleAnalysis runs and, when handleProcess awaited it, the
\* rest of handleProcess with the analysisResult that its render captured
Settle(i, ok) ==
    LET g == gens[i]
        rest == Without(gens, i)
        before == IF g.live THEN analysisResult ELSE EMPTY
        after == IF g.live /\ ok THEN ANALYSIS_TEXT ELSE before
        generating == IF g.live THEN AfterSettle(isGenerating, ok)
                      ELSE isGenerating
        ctx(processing) == Ctx(g.live, generating, processing, Len(rest),
                               Len(ForeignGens(rest)))
    IN  IF g.by = "Continue"
        THEN /\ AnalysisOnNext(rest)
             /\ last' = WithCtx(Event("settle", g.by, ok, <<g.captured>>,
                                      after, before, EMPTY),
                                ctx(IF g.live THEN AfterSettle(isProcessing, ok)
                                    ELSE isProcessing))
        ELSE /\ gens' = rest
             /\ last' = WithCtx(Event("settle", g.by, ok, NoCall, after,
                                      before, EMPTY),
                                ctx(isProcessing))
             /\ IF g.live
                THEN /\ analysisResult' = after
                     /\ showResults' = (ok \/ showResults)
                     /\ isGenerating' = generating
                     /\ UNCHANGED <<prompt, isProcessing, exportVars>>
                ELSE UNCHANGED analysisVars
             /\ UNCHANGED <<variant, activeStep, results, reviewVars,
                            analysisProps, edited>>

GenerationSettles ==
    \E i \in DOMAIN gens : \E ok \in BOOLEAN : Settle(i, ok)

\* the wizard re-renders the mounted Analysis step with another keyword and
\* research content: initializedPrompt is recomputed, useState ignores it
Analysis_propsChange ==
    \E rs \in AnalysisResultSeqs :
        LET research == IF variant = "direct" THEN DirectContent(rs)
                        ELSE PreviewContent(rs)
        IN  /\ activeStep = "Analysis"
            /\ <<KeywordOf(rs), research>> # <<keyword, researchContent>>
            /\ results' = rs
            /\ keyword' = KeywordOf(rs)
            /\ researchContent' = research
            /\ last' = Plain("Analysis.propsChange")
            /\ UNCHANGED <<variant, activeStep, reviewVars, analysisVars,
                           gens, edited>>

(* ------------------------------------------------------------------ *)
(* Analysis step: model selection and export                          *)
(* ------------------------------------------------------------------ *)
\* what an export handler leaves alone in every case
ExportFrame ==
    UNCHANGED <<variant, activeStep, results, reviewVars, analysisProps,
                prompt, analysisResult, isProcessing, isGenerating,
                showResults, selectedModel, gens, edited>>

\* onValueChange of the model Select
setSelectedModel ==
    \E i \in DOMAIN RECOMMENDED_MODELS :
        /\ activeStep = "Analysis"
        /\ selectedModel # RECOMMENDED_MODELS[i]
        /\ selectedModel' = RECOMMENDED_MODELS[i]
        /\ last' = Plain("other")
        /\ UNCHANGED <<variant, activeStep, results, reviewVars,
                       analysisProps, prompt, analysisResult, isProcessing,
                       isGenerating, showResults, copySuccess, writes,
                       timers, gens, edited>>

\* handleCopy, as the handler is written (its button is rendered only
\* with showResults): returns on an empty analysisResult, else starts a
\* clipboard write and returns
handleCopy ==
    /\ activeStep = "Analysis"
    /\ IF analysisResult = EMPTY
       THEN UNCHANGED <<copySuccess, writes, timers>>
       ELSE /\ writes + timers < MaxCopies
            /\ writes' = writes + 1
            /\ UNCHANGED <<copySuccess, timers>>
    /\ last' = Plain("handleCopy")
    /\ ExportFrame

\* the clipboard write settles: .then sets copySuccess and starts the
\* 2000 ms timer, .catch only logs
ClipboardSettles ==
    \E ok \in BOOLEAN :
        /\ activeStep = "Analysis"
        /\ writes > 0
        /\ writes' = writes - 1
        /\ IF ok
           THEN /\ copySuccess' = TRUE
                /\ timers' = timers + 1
           ELSE UNCHANGED <<copySuccess, timers>>
        /\ last' = Event("clipboard", "Copy", ok, NoCall, analysisResult,
                         analysisResult, EMPTY)
        /\ ExportFrame

\* the timer started by a successful copy fires: setCopySuccess(false)
CopyTimerFires ==
    /\ activeStep = "Analysis"
    /\ timers > 0
    /\ timers' = timers - 1
    /\ copySuccess' = FALSE
    /\ UNCHANGED writes
    /\ last' = Plain("copyTimer")
    /\ ExportFrame

\* handleDownload, as the handler is written: returns on an empty
\* analysisResult, else saves the result under the keyword's file name
handleDownload ==
    /\ activeStep = "Analysis"
    /\ last' = [Plain("handleDownload") EXCEPT
                   !.file = IF analysisResult = EMPTY THEN NoFile
                            ELSE <<DownloadName(keyword), analysisResult>>]
    /\ UNCHANGED <<copySuccess, writes, timers>>
    /\ ExportFrame

(* ------------------------------------------------------------------ *)
(* Specifications                                                     *)
(* ------------------------------------------------------------------ *)
\* The Review step under every input, up to the Analysis step being shown.
NextReview ==
    \/ EnterReview
    \/ ReviewOnBack
    \/ AnalysisOnBack
    \/ Review_setPrompt
    \/ Direct_handleProcess
    \/ Preview_handleProcess
    \/ Preview_handleContinue
    \/ Review_propsChange

SpecReview == Init /\ [][NextReview]_vars

\* The whole wizard on short result sequences, the Review step unedited.
EnterReviewShort ==
    \E rs \in AnalysisResultSeqs :
        /\ activeStep = "Search"
        /\ activeStep' = "Review"
        /\ results' = rs
        /\ ReviewMount(rs)
        /\ last' = Plain("other")
        /\ UNCHANGED <<variant, analysisProps, analysisVars, gens, edited>>

NextAnalysis ==
    \/ EnterReviewShort
    \/ AnalysisOnBack
    \/ Direct_handleProcess
    \/ Preview_handleProcess
    \/ Preview_handleContinue
    \/ Analysis_setPrompt
    \/ generateStyleAnalysis
    \/ Analysis_handleProcess
    \/ GenerationSettles
    \/ Analysis_propsChange

SpecAnalysis == Init /\ [][NextAnalysis]_vars

\* The timer behind the awaited promise always fires, so a suspended
\* generateStyleAnalysis invocation is eventually resumed.
FairAnalysis == SpecAnalysis /\ WF_vars(GenerationSettles)

\* The Analysis step with its model selection and its export buttons.
NextExport ==
    \/ EnterReviewShort
    \/ AnalysisOnBack
    \/ Direct_handleProcess
    \/ Preview_handleProcess
    \/ Preview_handleContinue
    \/ generateStyleAnalysis
    \/ Analysis_handleProcess
    \/ GenerationSettles
    \/ setSelectedModel
    \/ handleCopy
    \/ ClipboardSettles
    \/ CopyTimerFires
    \/ handleDownload

SpecExport == Init /\ [][NextExport]_vars

(* ------------------------------------------------------------------ *)
(* Reading the outcome of the handler that ran last                   *)
(* ------------------------------------------------------------------ *)
\* the Review step's handleProcess just ran on a non-empty results sequence
JustProcessed == last.op = "Review.handleProcess" /\ Len(results) > 0

\* the research text and the resolved prompt that run built
BuiltResearch ==
    IF last.onNext # NoCall THEN last.onNext[3] ELSE processedContent
BuiltPrompt ==
    IF last.onNext # NoCall THEN last.onNext[1] ELSE finalPrompt

\* the Review step just called onNext
ReviewCalledOnNext ==
    /\ last.op \in {"Review.handleProcess", "Review.handleContinue"}
    /\ last.onNext # NoCall

\* the Analysis step just called onNext
AnalysisCalledOnNext ==
    /\ last.op \in {"Analysis.handleProcess", "settle"}
    /\ last.onNext # NoCall

NoPlaceholders(s) ==
    ~Includes(s, CONTENT) /\ ~Includes(s, KEYWORD) /\ ~Includes(s, keywordToken)

\* the blocks of a research text: each runs up to and including its "---"
\* line; the newline that joins it to the next block belongs to neither
RECURSIVE BlocksFrom(_, _)
BlocksFrom(r, from) ==
    LET e == IndexFrom(r, <<"---", "\n">>, from)
        next == IF e + 2 <= Len(r) /\ r[e + 2] = "\n" THEN e + 3 ELSE e + 2
    IN  IF from > Len(r) THEN << >>
        ELSE IF e = 0 THEN <<SubSeq(r, from, Len(r))>>
        ELSE <<SubSeq(r, from, e + 1)>> \o BlocksFrom(r, next)

Blocks(r) == BlocksFrom(r, 1)

Heading(result) ==
    <<"#", " ">> \o result.title \o <<"\n", "\n", "Source: ">> \o result.url

EndsWith(s, suffix) == MatchAt(s, suffix, Len(s) - Len(suffix) + 1)

(* ------------------------------------------------------------------ *)
(* Claims                                                             *)
(* ------------------------------------------------------------------ *)

\* C1: when the awaited generation rejects, analysisResult keeps the value
\* it had and onNext is not called by that attempt, whether the generation
\* was started by Generate or by Continue.
C1_FailedGenerationCommitsNothing ==
    (last.op = "settle" /\ ~last.ok) =>
        (last.onNext = NoCall /\ last.held = last.before)

\* C2: whenever the Analysis step calls onNext after a generation that
\* succeeded or with a result it already had, the argument is the generated
\* analysis text, the one the step holds in analysisResult at that moment.
C2_OnNextCarriesHeldAnalysis ==
    (AnalysisCalledOnNext /\ last.ok) =>
        (last.onNext = <<last.held>> /\ last.held = ANALYSIS_TEXT)

\* C3: with an empty results sequence the Review step's handleProcess calls
\* no onNext and changes neither the step's state nor the active step.
C3_EmptyResultsBlockProcess ==
    [][ (activeStep = "Review" /\ Len(results) = 0
         /\ last'.op = "Review.handleProcess")
        => (/\ last'.onNext = NoCall
            /\ UNCHANGED <<activeStep, results, r_prompt, r_isProcessing,
                           processedContent, r_showResults, finalKeyword,
                           finalPrompt>>) ]_vars

\* C3 witness: handleProcess ran on a Review step holding no results
C3_Witness ==
    /\ activeStep = "Review"
    /\ Len(results) = 0
    /\ last.op = "Review.handleProcess"

\* C4: when neither the keyword nor the research text holds a placeholder
\* (nor a $ pattern), the prompt the Review step resolves from a template
\* with n occurrences of [CONTENT] holds no [CONTENT] and holds the
\* research text n times.
C4_EveryOccurrenceReplaced ==
    (JustProcessed /\ NoPlaceholders(KeywordOf(results))
                   /\ NoPlaceholders(BuiltResearch)
                   /\ ~Includes(BuiltResearch, <<"$">>)) =>
        (/\ Count(BuiltPrompt, CONTENT) = 0
         /\ Count(BuiltPrompt, BuiltResearch) = Count(last.tmpl, CONTENT))

\* C5: when the keyword holds the token [CONTENT], the Analysis step's
\* initial prompt holds the keyword verbatim and the research content sits
\* at the template's own [CONTENT], the end of the template.
C5_InsertedKeywordNotRescanned ==
    (/\ activeStep = "Analysis"
     /\ Includes(keyword, CONTENT)
     /\ prompt = initializedPrompt(keyword, researchContent)) =>
        (/\ Includes(prompt, keyword)
         /\ EndsWith(prompt, researchContent))

\* C6: for results without placeholder tokens and a prompt the user never
\* edited, the prompt the Review step hands to onNext holds the keyword in
\* place of [keyword], holds the whole research text and no [CONTENT].
C6_ReviewEndToEnd ==
    (/\ ReviewCalledOnNext
     /\ edited = NotEdited
     /\ last.onNext[2] # EMPTY
     /\ NoPlaceholders(last.onNext[2])
     /\ NoPlaceholders(last.onNext[3])) =>
        (/\ Includes(last.onNext[1], last.onNext[2])
         /\ ~Includes(last.onNext[1], keywordToken)
         /\ Includes(last.onNext[1], last.onNext[3])
         /\ ~Includes(last.onNext[1], CONTENT))

\* C7: the research text holds exactly one block per result, in input
\* order; each block starts with "# <title>" then "Source: <url>" and ends
\* with its "---" line, which separates it from the next block.
C7_OneBlockPerResultInOrder ==
    JustProcessed =>
        LET bs == Blocks(BuiltResearch) IN
        /\ Len(bs) = Len(results)
        /\ Join(bs, <<"\n">>) = BuiltResearch
        /\ \A i \in 1..Len(results) :
              /\ MatchAt(bs[i], Heading(results[i]), 1)
              /\ EndsWith(bs[i], <<"\n", "---", "\n">>)
              /\ Count(bs[i], <<"---">>) = 1

\* C7 witness: a research text was built from two different results
C7_Witness ==
    /\ JustProcessed
    /\ Len(results) >= 2
    /\ results[1] # results[2]
    /\ Len(Blocks(BuiltResearch)) >= 2

\* C8: a result with neither content nor snippet gets a block holding
\* "No content available"; a result with content gets a block whose body
\* comes from the content.
C8_FallbackAndContentPreferred ==
    JustProcessed =>
        LET bs == Blocks(BuiltResearch) IN
        \A i \in 1..Len(results) :
            /\ (results[i].content = EMPTY /\ results[i].snippet = EMPTY)
                   => Includes(bs[i], NO_CONTENT)
            /\ (htmlToMarkdown(results[i].content) # EMPTY)
                   => Includes(bs[i], htmlToMarkdown(results[i].content))

\* C9: after the user edited the Review prompt, showing the Review step
\* again (back, then forward) shows the text typed last.
C9_BackForwardKeepsEdit ==
    [][ (activeStep # "Review" /\ activeStep' = "Review"
         /\ edited # NotEdited) => r_prompt' = edited ]_vars

\* C10: when the keyword or research content supplied to a mounted step
\* changes, that step's prompt and analysis result stay as they were.
C10_SuppliedChangeKeepsPrompt ==
    [][ /\ (activeStep = "Review" /\ activeStep' = "Review"
            /\ KeywordOf(results') # KeywordOf(results))
               => r_prompt' = r_prompt
        /\ (activeStep = "Analysis" /\ activeStep' = "Analysis"
            /\ <<keyword', researchContent'>> # <<keyword, researchContent>>)
               => (prompt' = prompt /\ analysisResult' = analysisResult)
      ]_vars

\* C11: in the Analysis step, whenever the mounted step calls onNext and
\* every suspended generation was started by it (by Generate or Continue
\* clicks its buttons accepted), isGenerating is false and no
\* generateStyleAnalysis invocation is suspended at its await.
C11_NoOnNextWhileGenerating ==
    (AnalysisCalledOnNext /\ last.ctx.live /\ last.ctx.foreign = 0) =>
        (~last.ctx.generating /\ last.ctx.suspended = 0)

\* C11 witness: a Continue click started a generation, it settled and
\* only then onNext was called
C11_Witness ==
    /\ AnalysisCalledOnNext
    /\ last.op = "settle"
    /\ last.by = "Continue"
    /\ last.ctx.live
    /\ last.ctx.foreign = 0

\* C12: at most one generateStyleAnalysis invocation of the mounted
\* Analysis step is suspended at its await, and isGenerating is true
\* exactly while one is.
C12_AtMostOneGenerationInFlight ==
    activeStep = "Analysis" =>
        (/\ Len(LiveGens(gens)) <= 1
         /\ isGenerating <=> Len(LiveGens(gens)) = 1)

\* C12 witness: one generation is in flight, started by a Continue click
C12_Witness ==
    /\ activeStep = "Analysis"
    /\ Len(LiveGens(gens)) = 1
    /\ isProcessing
    /\ gens[Len(gens)].by = "Continue"

\* a busy flag is true only while the operation its handler awaits is
\* pending: when a generation settles, by success or by failure, its
\* handler leaves isGenerating false, and isProcessing false if Continue
\* started it; with no generation pending both flags are false; the
\* Review step's isProcessing is false between events
BusyOnlyWhilePending ==
    /\ (last.op = "settle" /\ last.ctx.live) =>
           (/\ ~last.ctx.generating
            /\ last.by = "Continue" => ~last.ctx.processing)
    /\ (activeStep = "Analysis" /\ LiveGens(gens) = << >>) =>
           (~isGenerating /\ ~isProcessing)
    /\ ~r_isProcessing

\* C13: every started generation and every started Continue handler
\* eventually clears its busy flag: isGenerating and isProcessing, once
\* true, become false again, whether the awaited operation succeeds or
\* fails, and neither flag is ever true with nothing pending, so the
\* Generate and Continue buttons are enabled again.
C13_BusyFlagsCleared ==
    /\ []BusyOnlyWhilePending
    /\ isGenerating ~> ~isGenerating
    /\ isProcessing ~> ~isProcessing

\* C13 witness: a generation failed and the step, still shown, has both
\* flags cleared
C13_Witness ==
    /\ last.op = "settle"
    /\ ~last.ok
    /\ last.ctx.live
    /\ activeStep = "Analysis"
    /\ ~isGenerating
    /\ ~isProcessing

\* C14: handleCopy and handleDownload do nothing when analysisResult is
\* empty; copying (whether the clipboard write succeeds or is rejected)
\* and downloading leave analysisResult, prompt, selectedModel,
\* isGenerating and isProcessing unchanged and call neither onNext nor
\* onBack; after a rejected clipboard write copySuccess is false.
C14_ExportChangesNothing ==
    [][ /\ (last'.op \in {"handleCopy", "handleDownload"}
            /\ analysisResult = EMPTY)
               => (/\ UNCHANGED <<copySuccess, writes, timers>>
                   /\ last'.file = NoFile)
        /\ (last'.op \in {"handleCopy", "handleDownload", "clipboard"})
               => (/\ UNCHANGED <<analysisResult, prompt, selectedModel,
                                  isGenerating, isProcessing>>
                   /\ activeStep' = activeStep
                   /\ last'.onNext = NoCall)
        /\ (last'.op = "clipboard" /\ ~last'.ok) => ~copySuccess'
      ]_vars

\* the text t with its first occurrence of pat replaced by v as it is
FirstReplacedBy(t, pat, v) ==
    LET i == IndexOf(t, pat) IN
    IF i = 0 THEN t
    ELSE SubSeq(t, 1, i - 1) \o v \o SubSeq(t, i + Len(pat), Len(t))

\* C15: in the preview variant of the Review step, onNext is called only
\* after a Process run on a non-empty results sequence, and its arguments
\* all come from the last such run: the research text is the run's
\* formatted content, the keyword is the keyword of the run's results, and
\* the prompt is the prompt text of the run with its first [CONTENT]
\* replaced by that research text, whatever was typed after the run.
C15_PreviewOnNextFromOneRun ==
    (variant = "preview" /\ last.op = "Review.handleContinue") =>
        LET run == last.run IN
        /\ Len(run.results) > 0
        /\ last.onNext[3] = PreviewContent(run.results)
        /\ last.onNext[2] = KeywordOf(run.results)
        /\ last.onNext[1] = FirstReplacedBy(run.tmpl, CONTENT, last.onNext[3])

====
